---- MODULE Spec2Model ----
(***************************************************************************)
(* Model of the multi-server MCP client                                    *)
(* (src/learning/Clients/multi_server_mcp_client.py): the tool registry    *)
(* (self.servers, self.tool_to_server_map, connect_to_server, call_tool,   *)
(* get_all_tools) and the conversation orchestrator (process_query).       *)
(*                                                                         *)
(* Two specifications share the variables:                                 *)
(*   Spec   the registry: connect_to_server step by step (one step per     *)
(*          await), and call_tool on the resulting registry;               *)
(*   QSpec  one process_query after another on a registry that Spec        *)
(*          reaches (RegistrySamples).                                     *)
(***************************************************************************)
EXTENDS Integers, Sequences, FiniteSets, TLC

\* ------------------------------------------------------------------ inputs

\* Identifiers connect_to_server is called with.
ServerIds == {"s1", "s2"}

\* Tool names an endpoint may advertise in list_tools().
ToolNames == {"add", "search"}

\* Tool lists an endpoint may answer list_tools() with (response.tools).
ToolLists == {<< >>, <<"add">>, <<"search">>, <<"add", "search">>}

\* Tool names the model may request: the advertised ones and one that no
\* endpoint ever advertises.
ReqNames == ToolNames \cup {"nosuch"}

\* What the remote session.call_tool does: answers with a text content,
\* answers with an empty content list (result.content[0] raises IndexError),
\* or raises.
RemoteOutcomes == {"text", "empty", "raise"}

\* Text of a successful remote reply (result.content[0].text).
ReplyText == "9"

\* str(e) of the exception a remote call raises, and of the IndexError.
RemoteErrorText == "connection lost"
IndexErrorText == "list index out of range"

\* ------------------------------------------------------------------ state

VARIABLES
    servers,            \* self.servers: insertion-ordered dict, as a sequence of entries
    tool_to_server_map, \* self.tool_to_server_map: function on the registered names
    cpc,                \* where the running connect_to_server is suspended ("idle": none)
    cid,                \* server_id of the running connect_to_server
    pre,                \* entries, catalog and route table when the last connect_to_server was called
    lastConnect,        \* the last connect_to_server call: id, result, advertised list, routes written
    lastCall,           \* the last call_tool made outside a query: request and result
    exit_stack,         \* self.exit_stack: the async contexts entered and not yet closed
    inprogress,         \* server_ids of the connect_to_server calls that have not returned
    snapshot,           \* what a caller's last two get_all_tools calls in a row returned
    qpc,                \* where process_query stands
    all_tools,          \* process_query's all_tools (line 171)
    messages,           \* process_query's messages: the transcript
    calls,              \* the tool_calls the running for loop iterates over
    idx,                \* the position of that loop in calls
    rounds,             \* dispatch rounds (for loops) entered by this query
    sent,               \* the completion requests made by this query, in order
    responses,          \* the completion responses received by this query, in order
    outcomes,           \* what became of each tool call of this query, in order
    answer,             \* the value process_query returned
    error,              \* str of the exception process_query raised
    mpc,                \* where main() stands ("off": the client is used without main)
    todo,               \* main's servers_to_connect.items() still to iterate over
    connected_any,      \* main's connected_any
    issued,             \* the server_ids main has called connect_to_server with, in order
    returned,           \* what main's connect_to_server calls returned, in order
    shown,              \* what chat_loop printed last
    pending,            \* the exception on its way out of main
    cleanups,           \* how many times main has called cleanup
    queries,            \* the queries chat_loop has passed to process_query
    ended,              \* how chat_loop was left
    session,            \* self.session of a SimpleGroqClient
    final_text,         \* final_text of the stdio client's process_query
    current_process,    \* browser_documentation.current_process
    alive,              \* the child processes that are running
    spawned,            \* how many child processes have been started
    tpc,                \* where each request thread of the Flask app stands
    handle              \* the Popen object a request thread is working with

regvars == <<servers, tool_to_server_map, cpc, cid, pre, lastConnect, lastCall,
             exit_stack, inprogress, snapshot>>

qvars == <<qpc, all_tools, messages, calls, idx, rounds, sent, responses, outcomes,
           answer, error>>

mainvars == <<mpc, todo, connected_any, issued, returned, shown, pending, cleanups,
              queries, ended>>

simplevars == <<session, final_text>>

browservars == <<current_process, alive, spawned, tpc, handle>>

auxvars == <<simplevars, browservars>>

vars == <<regvars, qvars, mainvars, auxvars>>

\* The request threads of the Flask development server (app.run, threaded).
Threads == {"t1", "t2"}

\* Python's None as a process handle.
NoProcess == 0

\* No simple client and no documentation browser is running.
AuxOff ==
    /\ session = "None"
    /\ final_text = << >>
    /\ current_process = NoProcess
    /\ alive = {}
    /\ spawned = 0
    /\ tpc = [t \in Threads |-> "idle"]
    /\ handle = [t \in Threads |-> NoProcess]

NoServer == "-"
NoCall == [name |-> "-", raised |-> FALSE, status |-> "-", text |-> "-", contacted |-> << >>]

Range(s) == {s[i] : i \in 1..Len(s)}

\* ServerConnection.__init__: session None, no streams, no tools.
ServerConnection(server_id) ==
    [server_id |-> server_id, streams |-> FALSE, session |-> "None",
     tools |-> << >>, tool_names |-> << >>]

\* server_id in self.servers
HasServer(s, server_id) == \E i \in 1..Len(s) : s[i].server_id = server_id

IndexOf(s, server_id) == CHOOSE i \in 1..Len(s) : s[i].server_id = server_id

\* self.servers.get(server_id)
GetServer(s, server_id) == s[IndexOf(s, server_id)]

\* self.servers[server_id] = server: an existing key keeps its place in the
\* dict, a new key goes last.
SetServer(s, server) ==
    IF HasServer(s, server.server_id)
    THEN [s EXCEPT ![IndexOf(s, server.server_id)] = server]
    ELSE Append(s, server)

\* del self.servers[server_id]
DelServer(s, server_id) ==
    SelectSeq(s, LAMBDA e : e.server_id # server_id)

\* A field of the entry under server_id is assigned (server.x = ...): the local
\* `server` and self.servers[server_id] are the same object.
UpdateServer(s, server_id, field, value) ==
    [s EXCEPT ![IndexOf(s, server_id)] =
        [f \in DOMAIN @ |-> IF f = field THEN value ELSE @[f]]]

RECURSIVE Concat(_)
Concat(ss) == IF ss = << >> THEN << >> ELSE Head(ss) \o Concat(Tail(ss))

\* get_all_tools: the tools of every entry of self.servers, in dict order.  A
\* tool descriptor is modelled by its name.
get_all_tools(s) == Concat([i \in 1..Len(s) |-> s[i].tools])

\* for tool_name in server.tool_names: self.tool_to_server_map[tool_name] = server_id
RECURSIVE RegisterRoutes(_, _, _)
RegisterRoutes(map, names, server_id) ==
    IF names = << >> THEN map
    ELSE LET n == Head(names)
             m == [k \in DOMAIN map \cup {n} |-> IF k = n THEN server_id ELSE map[k]]
         IN RegisterRoutes(m, Tail(names), server_id)

\* ------------------------------------------------------------ connect_to_server

\* No get_all_tools call has been made by a caller yet.
NoSnapshot == [first |-> << >>, second |-> << >>]

\* get_all_tools with `all_tools` bound to the tools list of the first
\* entry instead of a new list: extend() grows that entry's own list.
ServersAfterCatalogExtended(s) ==
    IF s = << >> THEN s
    ELSE [s EXCEPT ![1] = [s[1] EXCEPT !.tools = get_all_tools(s)]]

\* self.servers after get_all_tools(): line 120 makes a new list, lines
\* 121-123 extend that list, and the entries are only read.
ServersAfterCatalog(s) == s

\* Lines 114-124 called twice in a row by a caller of the client.
GetAllTools ==
    /\ cpc = "idle"
    /\ LET once == ServersAfterCatalog(servers) IN
       /\ snapshot' = [first |-> get_all_tools(servers),
                       second |-> get_all_tools(once)]
       /\ servers' = ServersAfterCatalog(once)
    /\ UNCHANGED <<tool_to_server_map, cpc, cid, pre, lastConnect, lastCall,
                   exit_stack, inprogress>>
    /\ UNCHANGED <<auxvars, qvars, mainvars>>

\* An async context entered on self.exit_stack (lines 67-69, 78-80): the
\* transport or the session of an endpoint.
Context(server_id, kind) == [server_id |-> server_id, context |-> kind]

\* The contexts connects of the endpoints ids have entered up to the session.
Contexts(ids) == {Context(e, k) : e \in ids, k \in {"sse_client", "ClientSession"}}

\* No main() is running: the client is driven call by call.
MainOff ==
    /\ mpc = "off"
    /\ todo = << >>
    /\ connected_any = FALSE
    /\ issued = << >>
    /\ returned = << >>
    /\ shown = "-"
    /\ pending = "-"
    /\ cleanups = 0
    /\ queries = {}
    /\ ended = "-"

\* Lines 59-63: the entry is created and put in self.servers before anything
\* is awaited; an entry already under server_id is replaced.
BeginConnect(server_id) ==
    /\ servers' = SetServer(servers, ServerConnection(server_id))
    /\ cpc' = "transport"
    /\ cid' = server_id
    /\ pre' = [servers |-> servers, catalog |-> get_all_tools(servers),
               routes |-> tool_to_server_map]
    /\ lastConnect' = [id |-> server_id, result |-> "running", advertised |-> << >>,
                       wrote |-> << >>]
    /\ lastCall' = NoCall
    /\ inprogress' = inprogress \cup {server_id}
    /\ UNCHANGED snapshot
    /\ UNCHANGED <<tool_to_server_map, exit_stack>>

\* connect_to_server called on a client that is used without main(), once
\* the call before it has returned.
ConnectStart(server_id) ==
    /\ cpc = "idle"
    /\ UNCHANGED <<auxvars, qvars, mainvars>>
    /\ BeginConnect(server_id)

\* except Exception (lines 108-112): the entry is deleted, False is returned.
\* The route table is left as it is.
ConnectFailed ==
    /\ servers' = IF HasServer(servers, cid) THEN DelServer(servers, cid) ELSE servers
    /\ cpc' = "idle"
    /\ cid' = NoServer
    /\ lastConnect' = [lastConnect EXCEPT !.result = "failed"]
    /\ inprogress' = inprogress \ {cid}
    /\ UNCHANGED snapshot
    /\ UNCHANGED <<pre, lastCall, exit_stack>>

\* Lines 67-75: await enter_async_context(sse_client(...)).
ConnectTransport ==
    /\ cpc = "transport"
    /\ UNCHANGED <<auxvars, qvars, mainvars>>
    /\ \/ /\ servers' = UpdateServer(servers, cid, "streams", TRUE)
          /\ exit_stack' = exit_stack \cup {Context(cid, "sse_client")}
          /\ cpc' = "session"
          /\ UNCHANGED <<tool_to_server_map, cid, pre, lastConnect, lastCall, inprogress, snapshot>>
       \/ ConnectFailed /\ UNCHANGED tool_to_server_map

\* Lines 78-80: await enter_async_context(ClientSession(...)).
ConnectSession ==
    /\ cpc = "session"
    /\ UNCHANGED <<auxvars, qvars, mainvars>>
    /\ \/ /\ servers' = UpdateServer(servers, cid, "session", "created")
          /\ exit_stack' = exit_stack \cup {Context(cid, "ClientSession")}
          /\ cpc' = "initialize"
          /\ UNCHANGED <<tool_to_server_map, cid, pre, lastConnect, lastCall, inprogress, snapshot>>
       \/ ConnectFailed /\ UNCHANGED tool_to_server_map

\* Line 81: await server.session.initialize().
ConnectInitialize ==
    /\ cpc = "initialize"
    /\ UNCHANGED <<auxvars, qvars, mainvars>>
    /\ \/ /\ servers' = UpdateServer(servers, cid, "session", "initialized")
          /\ cpc' = "list_tools"
          /\ UNCHANGED <<tool_to_server_map, cid, pre, lastConnect, lastCall,
                         exit_stack, inprogress, snapshot>>
       \/ ConnectFailed /\ UNCHANGED tool_to_server_map

\* Line 84: await server.session.list_tools().
ConnectListTools ==
    /\ cpc = "list_tools"
    /\ UNCHANGED <<auxvars, qvars, mainvars>>
    /\ \/ \E tools \in ToolLists :
            /\ lastConnect' = [lastConnect EXCEPT !.advertised = tools]
            /\ cpc' = "register"
            /\ UNCHANGED <<servers, tool_to_server_map, cid, pre, lastCall,
                           exit_stack, inprogress, snapshot>>
       \/ ConnectFailed /\ UNCHANGED tool_to_server_map

\* Lines 88-89 with the loop left after its first round.
UpdateRoutesFirstOnly(map, names, server_id) ==
    IF names = << >> THEN map ELSE RegisterRoutes(map, <<Head(names)>>, server_id)

\* Lines 88-89 with setdefault in place of the assignment: a name that is
\* already routed keeps its route.
UpdateRoutesKeepExisting(map, names, server_id) ==
    RegisterRoutes(map, SelectSeq(names, LAMBDA n : n \notin DOMAIN map), server_id)

\* Lines 86-89 as one operator on the route table.
UpdateRoutes(map, names, server_id) == RegisterRoutes(map, names, server_id)

\* Lines 86-112, no await among them.  The tool names are stored and the
\* routes written (86-89); then the descriptors are converted (91-102) and
\* the result is logged and printed (104-105).  An exception of lines 91-105
\* (a descriptor without the expected attributes, a print that cannot encode
\* a tool name or write to a closed stdout) reaches the same except clause
\* with the routes already written.
ConnectRegister ==
    /\ cpc = "register"
    /\ UNCHANGED <<auxvars, qvars, mainvars>>
    /\ LET names == lastConnect.advertised
           routed == UpdateRoutes(tool_to_server_map, names, cid)
           named == UpdateServer(servers, cid, "tool_names", names)
       IN \/ /\ servers' = UpdateServer(named, cid, "tools", names)
             /\ tool_to_server_map' = routed
             /\ cpc' = "idle"
             /\ cid' = NoServer
             /\ lastConnect' = [lastConnect EXCEPT !.result = "ok", !.wrote = names]
             /\ inprogress' = inprogress \ {cid}
             /\ UNCHANGED snapshot
             /\ UNCHANGED <<pre, lastCall, exit_stack>>
          \/ /\ tool_to_server_map' = routed
             /\ servers' = IF HasServer(servers, cid) THEN DelServer(servers, cid)
                           ELSE servers
             /\ cpc' = "idle"
             /\ cid' = NoServer
             /\ lastConnect' = [lastConnect EXCEPT !.result = "failed", !.wrote = names]
             /\ inprogress' = inprogress \ {cid}
             /\ UNCHANGED snapshot
             /\ UNCHANGED <<pre, lastCall, exit_stack>>
          \* response.tools itself is malformed: line 87 raises
          \/ /\ UNCHANGED tool_to_server_map
             /\ ConnectFailed

\* ------------------------------------------------------------------ call_tool

\* call_tool with self.tool_to_server_map[tool_name] in place of .get(): an
\* unrouted name raises KeyError.
call_tool_subscript(s, map, tool_name, remote) ==
    IF tool_name \notin DOMAIN map
    THEN [name |-> tool_name, raised |-> TRUE, status |-> "-",
          text |-> "KeyError", contacted |-> << >>]
    ELSE [name |-> tool_name, raised |-> FALSE, status |-> "success",
          text |-> ReplyText, contacted |-> <<map[tool_name]>>]

\* call_tool forgetting the route of a tool whose endpoint is gone.
RegistryAfterCallEvicting(s, map, tool_name) ==
    IF tool_name \in DOMAIN map /\ ~HasServer(s, map[tool_name])
    THEN [servers |-> s, routes |-> [n \in DOMAIN map \ {tool_name} |-> map[n]]]
    ELSE [servers |-> s, routes |-> map]

\* self.servers and self.tool_to_server_map after call_tool(tool_name, ...):
\* lines 126-155 read both (.get at lines 137 and 143) and assign neither.
RegistryAfterCall(s, map, tool_name) == [servers |-> s, routes |-> map]

\* call_tool without lines 144-147: the session of the routed endpoint is
\* used unchecked, and server.session of a missing entry raises
\* AttributeError outside the try.
call_tool_unguarded(s, map, tool_name, remote) ==
    IF tool_name \notin DOMAIN map
    THEN [name |-> tool_name, raised |-> FALSE, status |-> "error",
          text |-> "Unknown tool: " \o tool_name, contacted |-> << >>]
    ELSE IF ~HasServer(s, map[tool_name])
    THEN [name |-> tool_name, raised |-> TRUE, status |-> "-",
          text |-> "AttributeError", contacted |-> << >>]
    ELSE [name |-> tool_name, raised |-> FALSE, status |-> "success",
          text |-> ReplyText, contacted |-> <<map[tool_name]>>]

\* call_tool with result.content[0].text read after the try block: an empty
\* content list raises IndexError to the caller.
call_tool_extract_outside(s, map, tool_name, remote) ==
    IF tool_name \notin DOMAIN map
    THEN [name |-> tool_name, raised |-> FALSE, status |-> "error",
          text |-> "Unknown tool: " \o tool_name, contacted |-> << >>]
    ELSE IF ~HasServer(s, map[tool_name])
    THEN [name |-> tool_name, raised |-> FALSE, status |-> "error",
          text |-> "Server " \o map[tool_name] \o " is not connected",
          contacted |-> << >>]
    ELSE IF remote = "empty"
    THEN [name |-> tool_name, raised |-> TRUE, status |-> "-",
          text |-> IndexErrorText, contacted |-> <<map[tool_name]>>]
    ELSE IF remote = "text"
    THEN [name |-> tool_name, raised |-> FALSE, status |-> "success",
          text |-> ReplyText, contacted |-> <<map[tool_name]>>]
    ELSE [name |-> tool_name, raised |-> FALSE, status |-> "error",
          text |-> "Error calling tool " \o tool_name \o " on server "
                   \o map[tool_name] \o ": " \o RemoteErrorText,
          contacted |-> <<map[tool_name]>>]

\* call_tool(tool_name, arguments) with the remote endpoint behaving as
\* `remote`: what it returns (never raised: every path returns a dict) and
\* the endpoints whose session.call_tool it awaited.
call_tool(s, map, tool_name, remote) ==
    IF tool_name \notin DOMAIN map
    THEN [name |-> tool_name, raised |-> FALSE, status |-> "error",
          text |-> "Unknown tool: " \o tool_name, contacted |-> << >>]
    ELSE LET server_id == map[tool_name] IN
         IF ~HasServer(s, server_id) \/ GetServer(s, server_id).session = "None"
         THEN [name |-> tool_name, raised |-> FALSE, status |-> "error",
               text |-> "Server " \o server_id \o " is not connected",
               contacted |-> << >>]
         ELSE IF remote = "text"
         THEN [name |-> tool_name, raised |-> FALSE, status |-> "success",
               text |-> ReplyText, contacted |-> <<server_id>>]
         ELSE [name |-> tool_name, raised |-> FALSE, status |-> "error",
               text |-> "Error calling tool " \o tool_name \o " on server "
                        \o server_id \o ": "
                        \o (IF remote = "raise" THEN RemoteErrorText ELSE IndexErrorText),
               contacted |-> <<server_id>>]

\* A call_tool on the registry as it stands between two connects.
CallTool ==
    /\ cpc = "idle"
    /\ UNCHANGED <<auxvars, qvars, mainvars>>
    /\ \E tool_name \in ReqNames, remote \in RemoteOutcomes :
         /\ lastCall' = call_tool(servers, tool_to_server_map, tool_name, remote)
         /\ servers' = RegistryAfterCall(servers, tool_to_server_map, tool_name).servers
         /\ tool_to_server_map' =
              RegistryAfterCall(servers, tool_to_server_map, tool_name).routes
    /\ UNCHANGED <<cpc, cid, pre, lastConnect, exit_stack, inprogress, snapshot>>


\* ------------------------------------------------------------------ process_query

\* Most tool calls one completion response carries.
MaxCalls == 2

Query == "what is 2+7"

\* Python's None as a message content.
NoneContent == "<None>"

\* tool_call.function.arguments: a JSON object, or a text json.loads rejects.
ValidArgs == "{\"a\": 2, \"b\": 7}"
BadArgs == ""
JsonLoadsErrorText == "Expecting value: line 1 column 1 (char 0)"

\* json.loads(arguments) returns (TRUE) or raises JSONDecodeError (FALSE).
JsonDecodes(arguments) == arguments = ValidArgs

\* json.dumps({"status": "error", "message": message})
JsonDumpsError(message) ==
    "{\"status\": \"error\", \"message\": \"" \o message \o "\"}"

\* What the model asks for in one tool call, apart from its id.
Requests ==
    { [name |-> "add", arguments |-> ValidArgs],
      [name |-> "search", arguments |-> ValidArgs],
      [name |-> "nosuch", arguments |-> ValidArgs],
      [name |-> "add", arguments |-> BadArgs] }

\* What the remote call of a dispatch inside a query does: it answers with a
\* text or it raises.
QueryRemoteOutcomes == {"text", "raise"}

\* The id the model gives the i-th tool call of its k-th response.
CallId(k, i) == "call_" \o ToString(10 * k + i)

\* The tool_calls of the k-th response: up to MaxCalls requests, ids in order.
ToolCallSeqs(k) ==
    UNION { { [i \in 1..n |-> [id |-> CallId(k, i), name |-> f[i].name,
                                arguments |-> f[i].arguments]]
              : f \in [1..n -> Requests] }
            : n \in 0..MaxCalls }

\* The k-th completion response: a content (a text or None), and tool calls.
Responses(k) ==
    { [content |-> c, tool_calls |-> tc]
      : c \in {NoneContent, "reply " \o ToString(k)}, tc \in ToolCallSeqs(k) }

\* The test left out: every response is handled as one carrying tool calls.
HasToolCallsAlways(response) == TRUE

\* hasattr(message, 'tool_calls') and message.tool_calls (lines 206, 252)
HasToolCalls(response) == response.tool_calls # << >>

UserMessage(query) ==
    [role |-> "user", content |-> query, tool_calls |-> << >>, tool_call_id |-> "-"]

\* The first assistant message appended without its tool_calls.
AssistantMessageNoCalls(response) ==
    [role |-> "assistant", content |-> response.content,
     tool_calls |-> << >>, tool_call_id |-> "-"]

\* Lines 189-202: the first assistant message, content as the model gave it.
AssistantMessage(response) ==
    [role |-> "assistant", content |-> response.content,
     tool_calls |-> response.tool_calls, tool_call_id |-> "-"]

\* Lines 254-267: the follow-up assistant message, content or "".
FollowUpMessage(response) ==
    [role |-> "assistant",
     content |-> IF response.content = NoneContent THEN "" ELSE response.content,
     tool_calls |-> response.tool_calls, tool_call_id |-> "-"]

\* The tool message with the request's name where its id belongs.
ToolMessageNamed(tool_call, content) ==
    [role |-> "tool", content |-> content, tool_calls |-> << >>,
     tool_call_id |-> tool_call.name]

\* Lines 225-231, 234-240, 283-287, 290-294: the tool-result message.
ToolMessage(tool_call, content) ==
    [role |-> "tool", content |-> content, tool_calls |-> << >>,
     tool_call_id |-> tool_call.id]

\* The loop body without its except clause: a decode failure leaves
\* process_query as an exception.
ProcessToolCallNoExcept(tool_call, s, map, remote) ==
    IF ~JsonDecodes(tool_call.arguments)
    THEN [raised |-> TRUE, kind |-> "decode",
          message |-> ToolMessage(tool_call, JsonDumpsError(JsonLoadsErrorText)),
          called |-> << >>, contacted |-> << >>]
    ELSE LET result == call_tool(s, map, tool_call.name, remote) IN
         [raised |-> result.raised, kind |-> result.status,
          message |-> ToolMessage(tool_call,
                         IF result.status = "success" THEN result.text
                         ELSE JsonDumpsError(result.text)),
          called |-> <<tool_call.name>>, contacted |-> result.contacted]

\* The arguments decoded only when the result is built: call_tool is awaited
\* with the undecoded text first.
ProcessToolCallDecodeLate(tool_call, s, map, remote) ==
    LET result == call_tool(s, map, tool_call.name, remote) IN
    IF ~JsonDecodes(tool_call.arguments)
    THEN [raised |-> FALSE, kind |-> "decode",
          message |-> ToolMessage(tool_call, JsonDumpsError(JsonLoadsErrorText)),
          called |-> <<tool_call.name>>, contacted |-> result.contacted]
    ELSE [raised |-> FALSE, kind |-> result.status,
          message |-> ToolMessage(tool_call,
                         IF result.status = "success" THEN result.text
                         ELSE JsonDumpsError(result.text)),
          called |-> <<tool_call.name>>, contacted |-> result.contacted]

\* Lines 209-240 and 271-294: the body of the for loop over the tool calls.
\* json.loads, then call_tool, then one tool message; any exception of the
\* try block becomes a tool message too.  `kind` tells what happened:
\* "success", "error" (call_tool returned an error) or "decode"; `called`
\* holds the tool name call_tool was awaited with, if it was.
ProcessToolCall(tool_call, s, map, remote) ==
    IF ~JsonDecodes(tool_call.arguments)
    THEN [raised |-> FALSE, kind |-> "decode",
          message |-> ToolMessage(tool_call, JsonDumpsError(JsonLoadsErrorText)),
          called |-> << >>, contacted |-> << >>]
    ELSE LET result == call_tool(s, map, tool_call.name, remote) IN
         IF result.raised
         THEN [raised |-> FALSE, kind |-> "error",
               message |-> ToolMessage(tool_call, JsonDumpsError(result.text)),
               called |-> <<tool_call.name>>, contacted |-> result.contacted]
         ELSE [raised |-> FALSE, kind |-> result.status,
               message |-> ToolMessage(tool_call,
                              IF result.status = "success" THEN result.text
                              ELSE JsonDumpsError(result.text)),
               called |-> <<tool_call.name>>, contacted |-> result.contacted]

\* tool_choice of the three completion calls (lines 180, 247, 301).
ToolChoiceFirst == "auto"
ToolChoiceFollowUp == "auto"
ToolChoiceFinalAuto == "auto"
ToolChoiceFinal == "none"

\* A completion request that leaves the tool-result messages out.
CompletionRequestWithoutResults(msgs, tools, tool_choice) ==
    [messages |-> SelectSeq(msgs, LAMBDA m : m.role # "tool"), tools |-> tools,
     tool_choice |-> tool_choice]

\* The arguments of chat.completions.create (lines 176-181, 243-248, 297-302).
CompletionRequest(msgs, tools, tool_choice) ==
    [messages |-> msgs, tools |-> tools, tool_choice |-> tool_choice]

\* No query is running and none has run.
QueryIdle ==
    /\ qpc = "idle"
    /\ all_tools = << >>
    /\ messages = << >>
    /\ calls = << >>
    /\ idx = 0
    /\ rounds = 0
    /\ sent = << >>
    /\ responses = << >>
    /\ outcomes = << >>
    /\ answer = "-"
    /\ error = "-"

\* The exception caught inside process_query and its text returned as the
\* answer.
RaiseReturnsText(text) ==
    /\ qpc' = "done"
    /\ answer' = text
    /\ error' = "-"

\* process_query raises: nothing is returned.
Raise(text) ==
    /\ qpc' = "failed"
    /\ error' = text
    /\ answer' = "-"

\* process_query returning the content of the first response of the query
\* whenever there is one.
ReturnFirstContent(content) ==
    /\ qpc' = "done"
    /\ answer' = IF responses # << >> THEN responses[1].content ELSE content
    /\ error' = "-"

\* process_query returns.
Return(content) ==
    /\ qpc' = "done"
    /\ answer' = content
    /\ error' = "-"

\* The test of line 167 left out.
NoServersUnchecked(s) == FALSE

\* Line 167: not self.servers
NoServers(s) == s = << >>

\* Lines 167-173: a new query; ValueError without servers.
StartQuery ==
    /\ qpc \in {"idle", "done", "failed"}
    /\ cpc = "idle"
    /\ UNCHANGED <<auxvars, regvars, mainvars>>
    /\ messages' = << >>
    /\ calls' = << >>
    /\ idx' = 0
    /\ rounds' = 0
    /\ sent' = << >>
    /\ responses' = << >>
    /\ outcomes' = << >>
    /\ IF NoServers(servers)
       THEN /\ Raise("No servers connected")
            /\ all_tools' = << >>
       ELSE /\ qpc' = "model1"
            /\ all_tools' = get_all_tools(servers)
            /\ answer' = "-"
            /\ error' = "-"

\* Lines 175-206 and 308-309: the first completion call.
ModelCall1 ==
    /\ qpc = "model1"
    /\ UNCHANGED <<auxvars, regvars, mainvars, all_tools, outcomes>>
    /\ sent' = Append(sent, CompletionRequest(<<UserMessage(Query)>>, all_tools,
                                              ToolChoiceFirst))
    /\ \/ /\ Raise("completion failed")
          /\ UNCHANGED <<messages, calls, idx, rounds, responses>>
       \/ \E response \in Responses(1) :
            /\ responses' = Append(responses, response)
            /\ messages' = <<UserMessage(Query), AssistantMessage(response)>>
            /\ IF HasToolCalls(response)
               THEN /\ qpc' = "dispatch1"
                    /\ calls' = response.tool_calls
                    /\ idx' = 1
                    /\ rounds' = rounds + 1
                    /\ UNCHANGED <<answer, error>>
               ELSE /\ Return(response.content)
                    /\ UNCHANGED <<calls, idx, rounds>>

\* One round of a for loop over the tool calls (lines 208-240, 270-294):
\* the tool call at idx is processed and its message appended; after the
\* last one the loop is left for the completion call `after`.
DispatchStep(at, after) ==
    /\ idx <= Len(calls)
    /\ UNCHANGED <<cpc, cid, pre, lastConnect, lastCall, exit_stack, inprogress, snapshot>>
    /\ UNCHANGED <<auxvars, all_tools, calls, rounds, sent, responses, mainvars>>
    /\ \E remote \in QueryRemoteOutcomes :
         LET r == ProcessToolCall(calls[idx], servers, tool_to_server_map, remote)
             reg == IF r.called = << >>
                    THEN [servers |-> servers, routes |-> tool_to_server_map]
                    ELSE RegistryAfterCall(servers, tool_to_server_map, r.called[1])
         IN
         /\ servers' = reg.servers
         /\ tool_to_server_map' = reg.routes
         /\ IF r.raised
            THEN /\ Raise("tool call failed")
                 /\ UNCHANGED <<messages, idx, outcomes>>
            ELSE /\ messages' = Append(messages, r.message)
                 /\ outcomes' = Append(outcomes,
                                   [round |-> rounds, id |-> calls[idx].id,
                                    name |-> calls[idx].name, kind |-> r.kind,
                                    called |-> r.called,
                                    contacted |-> r.contacted])
                 /\ idx' = idx + 1
                 /\ qpc' = IF idx = Len(calls) THEN after ELSE at
                 /\ UNCHANGED <<answer, error>>

\* Lines 208-240: the first round.
Dispatch1 ==
    /\ qpc = "dispatch1"
    /\ DispatchStep("dispatch1", "model2")

\* Lines 242-267 and 306: the follow-up completion call.
ModelCall2 ==
    /\ qpc = "model2"
    /\ UNCHANGED <<auxvars, regvars, mainvars, all_tools, outcomes>>
    /\ sent' = Append(sent, CompletionRequest(messages, all_tools, ToolChoiceFollowUp))
    /\ \/ /\ Raise("completion failed")
          /\ UNCHANGED <<messages, calls, idx, rounds, responses>>
       \/ \E response \in Responses(2) :
            /\ responses' = Append(responses, response)
            /\ IF HasToolCalls(response)
               THEN /\ messages' = Append(messages, FollowUpMessage(response))
                    /\ qpc' = "dispatch2"
                    /\ calls' = response.tool_calls
                    /\ idx' = 1
                    /\ rounds' = rounds + 1
                    /\ UNCHANGED <<answer, error>>
               ELSE /\ Return(response.content)
                    /\ UNCHANGED <<messages, calls, idx, rounds>>

\* Lines 270-294: the follow-up round.
Dispatch2 ==
    /\ qpc = "dispatch2"
    /\ DispatchStep("dispatch2", "model3")

\* Lines 296-304: the last completion call; its tool calls, if any, are
\* not looked at.
ModelCall3 ==
    /\ qpc = "model3"
    /\ UNCHANGED <<auxvars, regvars, mainvars, all_tools, outcomes, messages, calls, idx, rounds>>
    /\ sent' = Append(sent, CompletionRequest(messages, all_tools, ToolChoiceFinal))
    /\ \/ /\ Raise("completion failed")
          /\ UNCHANGED responses
       \/ \E content \in {NoneContent, "reply 3"} :
            /\ responses' = Append(responses, [content |-> content, tool_calls |-> << >>])
            /\ Return(content)

\* ------------------------------------------------------------------ registry

\* MultiServerMCPClient.__init__
Init ==
    /\ servers = << >>
    /\ tool_to_server_map = << >>
    /\ exit_stack = {}
    /\ cpc = "idle"
    /\ cid = NoServer
    /\ pre = [servers |-> << >>, catalog |-> << >>, routes |-> << >>]
    /\ lastConnect = [id |-> NoServer, result |-> "none", advertised |-> << >>,
                      wrote |-> << >>]
    /\ lastCall = NoCall
    /\ inprogress = {}
    /\ snapshot = NoSnapshot
    /\ QueryIdle
    /\ AuxOff
    /\ MainOff

Next ==
    \/ \E server_id \in ServerIds : ConnectStart(server_id)
    \/ ConnectTransport
    \/ ConnectSession
    \/ ConnectInitialize
    \/ ConnectListTools
    \/ ConnectRegister
    \/ CallTool

Spec == Init /\ [][Next]_vars

\* ------------------------------------------------------------------ queries

\* An entry of self.servers after a connect_to_server that returned True.
Connected(server_id, names) ==
    [server_id |-> server_id, streams |-> TRUE, session |-> "initialized",
     tools |-> names, tool_names |-> names]

\* Registries a query may find, each one reached by Spec (SampleReached):
\* no endpoint; s1 with "add"; s1 with "search" and "add" routed to s2, whose
\* connect failed after its routes were written; s1 and s2 both with "add".
RegistrySamples ==
    { [servers |-> << >>, routes |-> << >>, exit_stack |-> {}],
      [servers |-> <<Connected("s1", <<"add">>)>>,
       routes |-> [n \in {"add"} |-> "s1"],
       exit_stack |-> Contexts({"s1"})],
      [servers |-> <<Connected("s1", <<"search">>)>>,
       routes |-> [n \in {"add", "search"} |-> IF n = "add" THEN "s2" ELSE "s1"],
       exit_stack |-> Contexts({"s1", "s2"})],
      [servers |-> <<Connected("s1", <<"add">>), Connected("s2", <<"add">>)>>,
       routes |-> [n \in {"add"} |-> "s2"],
       exit_stack |-> Contexts({"s1", "s2"})] }

InitQ ==
    /\ \E reg \in RegistrySamples :
         /\ servers = reg.servers
         /\ tool_to_server_map = reg.routes
         /\ exit_stack = reg.exit_stack
    /\ cpc = "idle"
    /\ cid = NoServer
    /\ pre = [servers |-> << >>, catalog |-> << >>, routes |-> << >>]
    /\ lastConnect = [id |-> NoServer, result |-> "none", advertised |-> << >>,
                      wrote |-> << >>]
    /\ lastCall = NoCall
    /\ inprogress = {}
    /\ snapshot = NoSnapshot
    /\ QueryIdle
    /\ AuxOff
    /\ MainOff

NextQ ==
    \/ StartQuery
    \/ ModelCall1
    \/ Dispatch1
    \/ ModelCall2
    \/ Dispatch2
    \/ ModelCall3

QSpec == InitQ /\ [][NextQ]_vars

\* Every registry of RegistrySamples is a registry of Spec between two connects.
SampleReached(reg) ==
    /\ cpc = "idle"
    /\ servers = reg.servers
    /\ tool_to_server_map = reg.routes

\* The registry with a caller that reads the catalog between connects.
NextCatalog ==
    \/ \E server_id \in ServerIds : ConnectStart(server_id)
    \/ ConnectTransport
    \/ ConnectSession
    \/ ConnectInitialize
    \/ ConnectListTools
    \/ ConnectRegister
    \/ GetAllTools

CatalogSpec == Init /\ [][NextCatalog]_vars

\* ------------------------------------------------------------------ main()

\* The orders in which servers_to_connect.items() can yield the configured
\* endpoints (lines 348-362: the defaults and the command-line overrides).
Configured == {<<"s1", "s2">>, <<"s2", "s1">>}

\* connect_to_server started as a task that main does not wait for.
ConnectReturnedAlways == TRUE

\* Line 370: `await client.connect_to_server(...)` gives main the result only
\* when the call has returned.
ConnectReturned == cpc = "idle"

\* Every connect_to_server call taken as a success.
SuccessAlways(connect) == TRUE

\* Lines 107 and 112: what connect_to_server returned, True or False.
Success(connect) == connect.result = "ok"

\* Lines 368-370: the next round of the for loop calls connect_to_server.
MainConnect ==
    /\ mpc = "connect"
    /\ todo # << >>
    /\ BeginConnect(Head(todo))
    /\ todo' = Tail(todo)
    /\ issued' = Append(issued, Head(todo))
    /\ mpc' = "await"
    /\ UNCHANGED <<auxvars, qvars, connected_any, returned, shown, pending, cleanups, queries,
                   ended>>

\* Lines 370-372: the call returns its result; if success: connected_any = True.
MainAwait ==
    /\ mpc = "await"
    /\ ConnectReturned
    /\ returned' = Append(returned, lastConnect)
    /\ connected_any' = (connected_any \/ Success(lastConnect))
    /\ mpc' = "connect"
    /\ UNCHANGED <<auxvars, regvars, qvars, todo, issued, shown, pending, cleanups, queries, ended>>

\* Lines 374-380 and 315-317: after the loop main returns when no connect
\* succeeded, and enters the try block and chat_loop otherwise.
MainLoopDone ==
    /\ mpc = "connect"
    /\ todo = << >>
    /\ IF ~connected_any
       THEN /\ mpc' = "exited"
            /\ shown' = "Failed to connect to any servers. Exiting."
       ELSE /\ mpc' = "chat"
            /\ shown' = "Multi-Server MCP Client Started!"
    /\ UNCHANGED <<auxvars, regvars, qvars, todo, connected_any, issued, returned, pending,
                   cleanups, queries, ended>>

\* A line of input as the sequence of its characters.
Whitespace == {" ", "\t"}
UpperCase == <<"A", "B", "C", "D", "E", "F", "G", "H", "I", "J", "K", "L", "M",
               "N", "O", "P", "Q", "R", "S", "T", "U", "V", "W", "X", "Y", "Z">>
LowerCase == <<"a", "b", "c", "d", "e", "f", "g", "h", "i", "j", "k", "l", "m",
               "n", "o", "p", "q", "r", "s", "t", "u", "v", "w", "x", "y", "z">>

\* str.strip()
RECURSIVE Strip(_)
Strip(text) ==
    IF text = << >> THEN text
    ELSE IF Head(text) \in Whitespace THEN Strip(Tail(text))
    ELSE IF text[Len(text)] \in Whitespace THEN Strip(SubSeq(text, 1, Len(text) - 1))
    ELSE text

\* str.lower()
Lower(text) ==
    [i \in 1..Len(text) |->
       IF \E u \in 1..26 : UpperCase[u] = text[i]
       THEN LowerCase[CHOOSE u \in 1..26 : UpperCase[u] = text[i]]
       ELSE text[i]]

QuitCommand == <<"q", "u", "i", "t">>
ServersCommand == <<"s", "e", "r", "v", "e", "r", "s">>

\* What the user types at the prompt (line 321).
Inputs ==
    { QuitCommand,
      <<" ", "Q", "u", "I", "T", " ">>,
      ServersCommand,
      <<"S", "E", "R", "V", "E", "R", "S", "\t">>,
      <<"q", "u", "i", "t", " ", "i", "t">>,
      << >>,
      <<" ", "2", "+", "7">> }

\* The test of line 323 made on the input as it was typed.
IsQuitAsTyped(input) == input = QuitCommand

\* Lines 321 and 323: query = input(...).strip(); query.lower() == 'quit'
IsQuit(input) == Lower(Strip(input)) = QuitCommand

\* Lines 321 and 326: query.lower() == 'servers'
IsServers(input) == Lower(Strip(input)) = ServersCommand

\* Lines 326-330: the input is 'servers'; the entries are printed.
ChatServers ==
    /\ mpc = "chat"
    /\ \E input \in Inputs :
         /\ ~IsQuit(input)
         /\ IsServers(input)
    /\ shown' = "Connected servers:"
    /\ UNCHANGED <<auxvars, regvars, qvars, mpc, todo, connected_any, issued, returned, pending,
                   cleanups, queries, ended>>

\* Lines 321-332: the input is neither command; process_query is awaited
\* with the stripped input.
ChatQuery ==
    /\ mpc = "chat"
    /\ \E input \in Inputs :
         /\ ~IsQuit(input)
         /\ ~IsServers(input)
         /\ queries' = queries \cup {Strip(input)}
    /\ mpc' = "query"
    /\ UNCHANGED <<auxvars, regvars, qvars, todo, connected_any, issued, returned, shown, pending,
                   cleanups, ended>>

\* Lines 332-336: process_query, whose steps are those of QSpec and which
\* changes nothing of the client, returns a response that is printed, or
\* raises an Exception (the ValueError of line 168 when there is no server)
\* whose text the except clause of the loop prints; the loop goes on.
ChatAnswer ==
    /\ mpc = "query"
    /\ IF NoServers(servers)
       THEN shown' = "Error: No servers connected"
       ELSE \E out \in {"response", "Error: "} : shown' = out
    /\ mpc' = "chat"
    /\ UNCHANGED <<auxvars, regvars, qvars, todo, connected_any, issued, returned, pending,
                   cleanups, queries, ended>>

\* Lines 323-324: the input is 'quit'; chat_loop returns and main goes on to
\* its finally clause.
ChatQuit ==
    /\ mpc = "chat"
    /\ \E input \in Inputs : IsQuit(input)
    /\ mpc' = "finally"
    /\ ended' = "quit"
    /\ UNCHANGED <<auxvars, regvars, qvars, todo, connected_any, issued, returned, shown, pending,
                   cleanups, queries>>

\* An exception leaves chat_loop.  At the prompt: an Exception raised inside
\* the except clause of the loop (a print that fails), which main's except
\* clause logs and prints (lines 381-383), or a KeyboardInterrupt, which
\* `except Exception` does not catch.  While process_query is awaited: the
\* CancelledError of a cancelled task, not caught either; it stays on its
\* way out through the finally clause.
ChatRaised ==
    /\ mpc \in {"chat", "query"}
    /\ mpc' = "finally"
    /\ ended' = IF mpc = "chat" THEN "raised at the prompt" ELSE "raised in a query"
    /\ \E e \in (IF mpc = "chat" THEN {"Exception", "KeyboardInterrupt"}
                 ELSE {"CancelledError"}) :
         IF e = "Exception"
         THEN /\ shown' = "Error: "
              /\ UNCHANGED pending
         ELSE /\ pending' = e
              /\ UNCHANGED shown
    /\ UNCHANGED <<auxvars, regvars, qvars, todo, connected_any, issued, returned, cleanups,
                   queries>>

\* Lines 384-385 and 339-343: finally: await client.cleanup(), which is
\* await self.exit_stack.aclose() and nothing else.  Every context is
\* closed; aclose raises the failure of a close, if there was one, once it
\* is through.  self.servers and self.tool_to_server_map are not touched.
Cleanup ==
    /\ mpc = "finally"
    /\ cleanups' = cleanups + 1
    /\ exit_stack' = {}
    /\ \E failed \in BOOLEAN :
         pending' = IF failed /\ exit_stack # {} THEN "aclose failed" ELSE pending
    /\ mpc' = "exited"
    /\ UNCHANGED <<servers, tool_to_server_map, cpc, cid, pre, lastConnect, lastCall,
                   inprogress, snapshot>>
    /\ UNCHANGED <<auxvars, qvars, todo, connected_any, issued, returned, shown, queries, ended>>

\* asyncio.run(main()) (lines 346-388) on a fresh client.
InitMain ==
    /\ servers = << >>
    /\ tool_to_server_map = << >>
    /\ exit_stack = {}
    /\ cpc = "idle"
    /\ cid = NoServer
    /\ pre = [servers |-> << >>, catalog |-> << >>, routes |-> << >>]
    /\ lastConnect = [id |-> NoServer, result |-> "none", advertised |-> << >>,
                      wrote |-> << >>]
    /\ lastCall = NoCall
    /\ inprogress = {}
    /\ snapshot = NoSnapshot
    /\ QueryIdle
    /\ AuxOff
    /\ mpc = "connect"
    /\ todo \in Configured
    /\ connected_any = FALSE
    /\ issued = << >>
    /\ returned = << >>
    /\ shown = "-"
    /\ pending = "-"
    /\ cleanups = 0
    /\ queries = {}
    /\ ended = "-"

NextMain ==
    \/ MainConnect
    \/ ConnectTransport
    \/ ConnectSession
    \/ ConnectInitialize
    \/ ConnectListTools
    \/ ConnectRegister
    \/ MainAwait
    \/ MainLoopDone
    \/ ChatServers
    \/ ChatQuery
    \/ ChatAnswer
    \/ ChatQuit
    \/ ChatRaised
    \/ Cleanup

MainSpec == InitMain /\ [][NextMain]_vars

\* ------------------------------------------------------------------ simple clients
\* SimpleGroqClient.process_query of groq/simple_groq_client.py (stdio) and
\* of groq/simple_sse_client.py (SSE).  Both keep the query in the same
\* locals as the multi-server client: messages, the tool calls of the loop,
\* the completion requests and responses.

\* A simple client with its session as given, no query made yet.
SimpleInit(sessions) ==
    /\ servers = << >>
    /\ tool_to_server_map = << >>
    /\ exit_stack = {}
    /\ cpc = "idle"
    /\ cid = NoServer
    /\ pre = [servers |-> << >>, catalog |-> << >>, routes |-> << >>]
    /\ lastConnect = [id |-> NoServer, result |-> "none", advertised |-> << >>,
                      wrote |-> << >>]
    /\ lastCall = NoCall
    /\ inprogress = {}
    /\ snapshot = NoSnapshot
    /\ QueryIdle
    /\ MainOff
    /\ session \in sessions
    /\ final_text = << >>
    /\ current_process = NoProcess
    /\ alive = {}
    /\ spawned = 0
    /\ tpc = [t \in Threads |-> "idle"]
    /\ handle = [t \in Threads |-> NoProcess]

\* What a query of a simple client leaves alone.
SimpleFrame == UNCHANGED <<regvars, mainvars, browservars, session, rounds>>

\* The tool lists session.list_tools() of the one server can answer with.
SimpleToolLists == {<<"add">>, <<"add", "search">>}

\* "\n".join(texts)
RECURSIVE Join(_)
Join(texts) ==
    IF texts = << >> THEN ""
    ELSE IF Len(texts) = 1 THEN texts[1]
    ELSE texts[1] \o "\n" \o Join(Tail(texts))

\* json.dumps refuses the TextContent objects of result.content.
JsonTypeErrorText == "Object of type TextContent is not JSON serializable"
JoinTypeErrorText == "sequence item: expected str instance, NoneType found"

\* stdio, lines 58-65: a new query.
StdioStart ==
    /\ qpc \in {"idle", "done", "failed"}
    /\ SimpleFrame
    /\ messages' = <<UserMessage(Query)>>
    /\ qpc' = "list_tools"
    /\ all_tools' = << >>
    /\ calls' = << >>
    /\ idx' = 0
    /\ sent' = << >>
    /\ responses' = << >>
    /\ outcomes' = << >>
    /\ final_text' = << >>
    /\ answer' = "-"
    /\ error' = "-"

\* stdio, lines 67-76: await self.session.list_tools().
StdioListTools ==
    /\ qpc = "list_tools"
    /\ SimpleFrame
    /\ UNCHANGED <<messages, calls, idx, sent, responses, outcomes, final_text>>
    /\ \/ /\ Raise(RemoteErrorText)
          /\ UNCHANGED all_tools
       \/ \E tools \in SimpleToolLists :
            /\ all_tools' = tools
            /\ qpc' = "model1"
            /\ UNCHANGED <<answer, error>>

\* stdio, lines 98 and 136: return "\n".join(final_text)
StdioReturn(texts) ==
    IF \E i \in 1..Len(texts) : texts[i] = NoneContent
    THEN Raise(JoinTypeErrorText)
    ELSE Return(Join(texts))

\* stdio, lines 78-98: the first completion call; no tool_choice is given.
StdioModelCall1 ==
    /\ qpc = "model1"
    /\ SimpleFrame
    /\ UNCHANGED <<all_tools, messages, outcomes>>
    /\ sent' = Append(sent, CompletionRequest(messages, all_tools, "-"))
    /\ \/ /\ Raise("completion failed")
          /\ UNCHANGED <<calls, idx, responses, final_text>>
       \/ \E response \in Responses(1) :
            LET texts == IF response.content = NoneContent THEN << >>
                         ELSE <<response.content>>
            IN /\ responses' = Append(responses, response)
               /\ final_text' = texts
               /\ IF HasToolCalls(response)
                  THEN /\ qpc' = "tool"
                       /\ calls' = response.tool_calls
                       /\ idx' = 1
                       /\ UNCHANGED <<answer, error>>
                  ELSE /\ StdioReturn(texts)
                       /\ UNCHANGED <<calls, idx>>

\* stdio, lines 93-95 and 107-112: assistant_message_content after the
\* first n tool calls of the loop: the text of the first response, if any,
\* and one tool_use item per tool call.
StdioAssistantContent(n) ==
    (IF responses[1].content = NoneContent THEN << >>
     ELSE <<[type |-> "text", text |-> responses[1].content, id |-> "-"]>>)
    \o [i \in 1..n |-> [type |-> "tool_use", text |-> calls[i].name, id |-> calls[i].id]]

\* stdio, lines 114-117: every assistant message of the loop holds the one
\* list assistant_message_content, so all of them show its latest items.
StdioAssistantMessage(n) ==
    [role |-> "assistant", content |-> StdioAssistantContent(n),
     tool_calls |-> << >>, tool_call_id |-> "-"]

\* stdio, lines 118-124: the tool message; the id is inside the JSON content.
StdioToolMessage(tool_call) ==
    [role |-> "tool",
     content |-> "{\"tool_call_id\": \"" \o tool_call.id \o "\", \"result\": []}",
     tool_calls |-> << >>, tool_call_id |-> "-"]

\* stdio, lines 99-124: one tool call of the loop.  Nothing is guarded:
\* json.loads, session.call_tool and json.dumps raise out of process_query.
\* json.dumps accepts result.content only when it is the empty list.
StdioToolCall ==
    /\ qpc = "tool"
    /\ SimpleFrame
    /\ UNCHANGED <<all_tools, calls, idx, sent, responses>>
    /\ IF ~JsonDecodes(calls[idx].arguments)
       THEN /\ Raise(JsonLoadsErrorText)
            /\ UNCHANGED <<messages, outcomes, final_text>>
       ELSE \E remote \in RemoteOutcomes :
              IF remote = "raise"
              THEN /\ Raise(RemoteErrorText)
                   /\ UNCHANGED <<messages, outcomes, final_text>>
              ELSE /\ final_text' = Append(final_text, "[Calling tool " \o calls[idx].name \o "]")
                   /\ outcomes' = Append(outcomes, [id |-> calls[idx].id,
                                                    name |-> calls[idx].name,
                                                    kind |-> remote])
                   /\ IF remote = "text"
                      THEN /\ Raise(JsonTypeErrorText)
                           /\ messages' =
                                Append([i \in 1..Len(messages) |->
                                          IF messages[i].role = "assistant"
                                          THEN StdioAssistantMessage(idx) ELSE messages[i]],
                                       StdioAssistantMessage(idx))
                      ELSE /\ messages' =
                                [i \in 1..Len(messages) |->
                                   IF messages[i].role = "assistant"
                                   THEN StdioAssistantMessage(idx) ELSE messages[i]]
                                \o <<StdioAssistantMessage(idx), StdioToolMessage(calls[idx])>>
                           /\ qpc' = "followup"
                           /\ UNCHANGED <<answer, error>>

\* The contents of the response to a follow-up call; its tool calls are not
\* looked at.
StdioFollowUps == {NoneContent, "reply 2"}

\* stdio, lines 126-134 and 136: the completion call after a tool call; its
\* content joins final_text; after the last tool call the texts are joined.
StdioFollowUp ==
    /\ qpc = "followup"
    /\ SimpleFrame
    /\ UNCHANGED <<all_tools, messages, calls, outcomes>>
    /\ sent' = Append(sent, CompletionRequest(messages, all_tools, "-"))
    /\ \/ /\ Raise("completion failed")
          /\ UNCHANGED <<idx, responses, final_text>>
       \/ \E content \in StdioFollowUps :
            /\ responses' = Append(responses, [content |-> content, tool_calls |-> << >>])
            /\ final_text' = Append(final_text, content)
            /\ idx' = idx + 1
            /\ IF idx = Len(calls)
               THEN StdioReturn(Append(final_text, content))
               ELSE /\ qpc' = "tool"
                    /\ UNCHANGED <<answer, error>>

InitStdio == SimpleInit({"connected"})

NextStdio ==
    \/ StdioStart
    \/ StdioListTools
    \/ StdioModelCall1
    \/ StdioToolCall
    \/ StdioFollowUp

StdioSpec == InitStdio /\ [][NextStdio]_vars

\* SSE, lines 100-101: a new query; ValueError without a session.
SseStart ==
    /\ qpc \in {"idle", "done", "failed"}
    /\ SimpleFrame
    /\ UNCHANGED final_text
    /\ messages' = << >>
    /\ all_tools' = << >>
    /\ calls' = << >>
    /\ idx' = 0
    /\ sent' = << >>
    /\ responses' = << >>
    /\ outcomes' = << >>
    /\ IF session = "None"
       THEN Raise("Client is not connected to a server")
       ELSE /\ qpc' = "get_mcp_tools"
            /\ answer' = "-"
            /\ error' = "-"

\* SSE, line 104: await self.get_mcp_tools().
SseGetTools ==
    /\ qpc = "get_mcp_tools"
    /\ SimpleFrame
    /\ UNCHANGED <<messages, calls, idx, sent, responses, outcomes, final_text>>
    /\ \/ /\ Raise(RemoteErrorText)
          /\ UNCHANGED all_tools
       \/ \E tools \in SimpleToolLists :
            /\ all_tools' = tools
            /\ qpc' = "model1"
            /\ UNCHANGED <<answer, error>>

\* SSE: tool_choice of the two completion calls (lines 111 and 170).
SseToolChoiceFirst == "auto"
SseToolChoiceFinal == "none"

\* SSE, lines 106-137 and 176: the first completion call.
SseModelCall1 ==
    /\ qpc = "model1"
    /\ SimpleFrame
    /\ UNCHANGED <<all_tools, outcomes, final_text>>
    /\ sent' = Append(sent, CompletionRequest(<<UserMessage(Query)>>, all_tools,
                                              SseToolChoiceFirst))
    /\ \/ /\ Raise("completion failed")
          /\ UNCHANGED <<messages, calls, idx, responses>>
       \/ \E response \in Responses(1) :
            /\ responses' = Append(responses, response)
            /\ messages' = <<UserMessage(Query), AssistantMessage(response)>>
            /\ IF response.tool_calls # << >>
               THEN /\ qpc' = "dispatch"
                    /\ calls' = response.tool_calls
                    /\ idx' = 1
                    /\ UNCHANGED <<answer, error>>
               ELSE /\ Return(response.content)
                    /\ UNCHANGED <<calls, idx>>

\* The body of the loop without its except clause.
SseProcessToolCallNoExcept(tool_call, remote) ==
    IF ~JsonDecodes(tool_call.arguments)
    THEN [raised |-> TRUE, kind |-> "decode", called |-> << >>,
          message |-> ToolMessage(tool_call, JsonDumpsError(JsonLoadsErrorText))]
    ELSE [raised |-> remote # "text", kind |-> remote, called |-> <<tool_call.name>>,
          message |-> ToolMessage(tool_call, ReplyText)]

\* SSE, lines 139-163: the body of the for loop.  json.loads is evaluated
\* for the argument list, then session.call_tool is awaited and
\* result.content[0].text read; any Exception of the three becomes a tool
\* message with a JSON error object.
SseProcessToolCall(tool_call, remote) ==
    IF ~JsonDecodes(tool_call.arguments)
    THEN [raised |-> FALSE, kind |-> "decode", called |-> << >>,
          message |-> ToolMessage(tool_call, JsonDumpsError(JsonLoadsErrorText))]
    ELSE [raised |-> FALSE, kind |-> remote, called |-> <<tool_call.name>>,
          message |-> ToolMessage(tool_call,
                        CASE remote = "text" -> ReplyText
                          [] remote = "raise" -> JsonDumpsError(RemoteErrorText)
                          [] OTHER -> JsonDumpsError(IndexErrorText))]

\* SSE, lines 137-163: one tool call of the loop.
SseDispatch ==
    /\ qpc = "dispatch"
    /\ SimpleFrame
    /\ UNCHANGED <<all_tools, calls, sent, responses, final_text>>
    /\ \E remote \in RemoteOutcomes :
         LET r == SseProcessToolCall(calls[idx], remote) IN
         IF r.raised
         THEN /\ Raise("tool call failed")
              /\ UNCHANGED <<messages, idx, outcomes>>
         ELSE /\ messages' = Append(messages, r.message)
              /\ outcomes' = Append(outcomes, [id |-> calls[idx].id,
                                               name |-> calls[idx].name,
                                               kind |-> r.kind, called |-> r.called])
              /\ idx' = idx + 1
              /\ qpc' = IF idx = Len(calls) THEN "model2" ELSE "dispatch"
              /\ UNCHANGED <<answer, error>>

\* SSE, lines 165-173: the final completion call.
SseModelCall2 ==
    /\ qpc = "model2"
    /\ SimpleFrame
    /\ UNCHANGED <<all_tools, messages, calls, idx, outcomes, final_text>>
    /\ sent' = Append(sent, CompletionRequest(messages, all_tools, SseToolChoiceFinal))
    /\ \/ /\ Raise("completion failed")
          /\ UNCHANGED responses
       \/ \E content \in {NoneContent, "reply 2"} :
            /\ responses' = Append(responses, [content |-> content, tool_calls |-> << >>])
            /\ Return(content)

InitSse == SimpleInit({"None", "connected"})

NextSse ==
    \/ SseStart
    \/ SseGetTools
    \/ SseModelCall1
    \/ SseDispatch
    \/ SseModelCall2

SseSpec == InitSse /\ [][NextSse]_vars

\* ------------------------------------------------------------------ documentation browser
\* run_script and stop_script of browser_documentation.py, served by request
\* threads that share the global current_process.  A step is one statement;
\* each `current_process.…` reads the global anew.

\* Child processes started in one run of the model.
MaxSpawn == 2

\* What the browser steps leave alone.
BrowserFrame == UNCHANGED <<regvars, qvars, mainvars, simplevars>>

\* Thread t moves to `to`.
Goto(t, to) == tpc' = [tpc EXCEPT ![t] = to]

\* Popen.terminate(): SIGTERM is sent; the child is gone at once or goes on
\* running for now.
Terminated(p) == {alive, alive \ {p}}

\* Lines 158-172: a /run_script request that passed the checks of the form.
RunScript(t) ==
    /\ tpc[t] = "idle"
    /\ Goto(t, "run_check")
    /\ BrowserFrame
    /\ UNCHANGED <<current_process, alive, spawned, handle>>

\* Line 176: if current_process is not None
RunCheck(t) ==
    /\ tpc[t] = "run_check"
    /\ Goto(t, IF current_process # NoProcess THEN "run_terminate" ELSE "run_popen")
    /\ BrowserFrame
    /\ UNCHANGED <<current_process, alive, spawned, handle>>

\* Line 177: current_process.terminate(); AttributeError when the global has
\* become None.
RunTerminate(t) ==
    /\ tpc[t] = "run_terminate"
    /\ BrowserFrame
    /\ UNCHANGED <<current_process, spawned, handle>>
    /\ IF current_process = NoProcess
       THEN /\ Goto(t, "run_failed")
            /\ UNCHANGED alive
       ELSE /\ alive' \in Terminated(current_process)
            /\ Goto(t, "run_wait")

\* Line 178: current_process.wait(timeout=5); TimeoutExpired when the child
\* is still running.
RunWait(t) ==
    /\ tpc[t] = "run_wait"
    /\ BrowserFrame
    /\ UNCHANGED <<current_process, alive, spawned, handle>>
    /\ Goto(t, IF current_process = NoProcess \/ current_process \in alive
               THEN "run_failed" ELSE "run_clear")

\* Line 179: current_process = None
RunClear(t) ==
    /\ tpc[t] = "run_clear"
    /\ current_process' = NoProcess
    /\ Goto(t, "run_popen")
    /\ BrowserFrame
    /\ UNCHANGED <<alive, spawned, handle>>

\* Lines 182-190, right-hand side: subprocess.Popen(...) starts a child or
\* raises.
RunPopen(t) ==
    /\ tpc[t] = "run_popen"
    /\ BrowserFrame
    /\ UNCHANGED current_process
    /\ \/ /\ spawned < MaxSpawn
          /\ spawned' = spawned + 1
          /\ alive' = alive \cup {spawned + 1}
          /\ handle' = [handle EXCEPT ![t] = spawned + 1]
          /\ Goto(t, "run_store")
       \/ /\ Goto(t, "run_failed")
          /\ UNCHANGED <<alive, spawned, handle>>

\* Line 182, left-hand side: current_process = <the new Popen object>
RunStore(t) ==
    /\ tpc[t] = "run_store"
    /\ current_process' = handle[t]
    /\ Goto(t, "run_communicate")
    /\ BrowserFrame
    /\ UNCHANGED <<alive, spawned, handle>>

\* Line 193: current_process.communicate(timeout=30) is called on the object
\* the global holds now.
RunCommunicate(t) ==
    /\ tpc[t] = "run_communicate"
    /\ BrowserFrame
    /\ UNCHANGED <<current_process, alive, spawned>>
    /\ IF current_process = NoProcess
       THEN /\ Goto(t, "run_failed")
            /\ UNCHANGED handle
       ELSE /\ handle' = [handle EXCEPT ![t] = current_process]
            /\ Goto(t, "run_communicating")

\* Line 193: communicate returns when that child has ended, or raises
\* TimeoutExpired while it is running.
RunCommunicated(t) ==
    /\ tpc[t] = "run_communicating"
    /\ Goto(t, IF handle[t] \in alive THEN "run_failed" ELSE "run_reset")
    /\ BrowserFrame
    /\ UNCHANGED <<current_process, alive, spawned, handle>>

\* Lines 194-195: current_process = None; the output is returned.
RunReset(t) ==
    /\ tpc[t] = "run_reset"
    /\ current_process' = NoProcess
    /\ Goto(t, "idle")
    /\ BrowserFrame
    /\ UNCHANGED <<alive, spawned, handle>>

\* Lines 196-197 and 201-202: either except clause; if current_process
RunFailed(t) ==
    /\ tpc[t] = "run_failed"
    /\ Goto(t, IF current_process # NoProcess THEN "run_failed_terminate" ELSE "idle")
    /\ BrowserFrame
    /\ UNCHANGED <<current_process, alive, spawned, handle>>

\* Lines 198 and 203: current_process.terminate(), not waited for; an
\* AttributeError here leaves the handler with the request failed.
RunFailedTerminate(t) ==
    /\ tpc[t] = "run_failed_terminate"
    /\ BrowserFrame
    /\ UNCHANGED <<current_process, spawned, handle>>
    /\ IF current_process = NoProcess
       THEN /\ Goto(t, "idle")
            /\ UNCHANGED alive
       ELSE /\ alive' \in Terminated(current_process)
            /\ Goto(t, "run_failed_clear")

\* Lines 199-200 and 204-205: current_process = None; the error is returned.
RunFailedClear(t) ==
    /\ tpc[t] = "run_failed_clear"
    /\ current_process' = NoProcess
    /\ Goto(t, "idle")
    /\ BrowserFrame
    /\ UNCHANGED <<alive, spawned, handle>>

\* Lines 207-211 and 221: a /stop_script request; if current_process is not None
StopScript(t) ==
    /\ tpc[t] = "idle"
    /\ Goto(t, IF current_process # NoProcess THEN "stop_terminate" ELSE "idle")
    /\ BrowserFrame
    /\ UNCHANGED <<current_process, alive, spawned, handle>>

\* Lines 213-214: current_process.terminate() and send_signal(SIGTERM).
StopTerminate(t) ==
    /\ tpc[t] = "stop_terminate"
    /\ BrowserFrame
    /\ UNCHANGED <<current_process, spawned, handle>>
    /\ IF current_process = NoProcess
       THEN /\ Goto(t, "stop_clear")
            /\ UNCHANGED alive
       ELSE /\ alive' \in Terminated(current_process)
            /\ Goto(t, "stop_wait")

\* Line 215: current_process.wait(timeout=5); an exception goes to the
\* except clause, which clears the global as well.
StopWait(t) ==
    /\ tpc[t] = "stop_wait"
    /\ Goto(t, "stop_clear")
    /\ BrowserFrame
    /\ UNCHANGED <<current_process, alive, spawned, handle>>

\* Lines 216-217 and 219-220: current_process = None; the answer is returned.
StopClear(t) ==
    /\ tpc[t] = "stop_clear"
    /\ current_process' = NoProcess
    /\ Goto(t, "idle")
    /\ BrowserFrame
    /\ UNCHANGED <<alive, spawned, handle>>

\* A child script ends by itself.
ChildExit ==
    /\ \E p \in alive : alive' = alive \ {p}
    /\ BrowserFrame
    /\ UNCHANGED <<current_process, spawned, tpc, handle>>

InitBrowser == SimpleInit({"None"})

NextBrowser ==
    \/ \E t \in Threads : RunScript(t)
    \/ \E t \in Threads : RunCheck(t)
    \/ \E t \in Threads : RunTerminate(t)
    \/ \E t \in Threads : RunWait(t)
    \/ \E t \in Threads : RunClear(t)
    \/ \E t \in Threads : RunPopen(t)
    \/ \E t \in Threads : RunStore(t)
    \/ \E t \in Threads : RunCommunicate(t)
    \/ \E t \in Threads : RunCommunicated(t)
    \/ \E t \in Threads : RunReset(t)
    \/ \E t \in Threads : RunFailed(t)
    \/ \E t \in Threads : RunFailedTerminate(t)
    \/ \E t \in Threads : RunFailedClear(t)
    \/ \E t \in Threads : StopScript(t)
    \/ \E t \in Threads : StopTerminate(t)
    \/ \E t \in Threads : StopWait(t)
    \/ \E t \in Threads : StopClear(t)
    \/ ChildExit

BrowserSpec == InitBrowser /\ [][NextBrowser]_vars

\* ------------------------------------------------------------------ claims
\* (registry, under Spec)

\* C4: a call_tool for a tool name absent from the route table returns an
\* error outcome whose message is "Unknown tool: <name>", does not raise and
\* awaits no endpoint.
UnknownToolIsErrorOutcome ==
    (lastCall # NoCall /\ lastCall.name \notin DOMAIN tool_to_server_map)
    => /\ ~lastCall.raised
       /\ lastCall.status = "error"
       /\ lastCall.text = "Unknown tool: " \o lastCall.name
       /\ lastCall.contacted = << >>

\* C4 witness: such a call was made while another tool was routed.
UnknownToolCalled ==
    /\ lastCall # NoCall
    /\ lastCall.name \notin DOMAIN tool_to_server_map
    /\ DOMAIN tool_to_server_map # {}

\* C6 (as claimed): once a connect_to_server has failed, the aggregated
\* catalog and the route table are what they were when it was called.
FailedConnectLeavesRegistry ==
    lastConnect.result = "failed"
    => /\ get_all_tools(servers) = pre.catalog
       /\ tool_to_server_map = pre.routes

\* C7 (as claimed): self.servers never holds an entry whose session is not
\* initialized or whose tool list has not been retrieved.
NoHalfInitializedEndpoint ==
    \A i \in 1..Len(servers) :
        /\ servers[i].session = "initialized"
        /\ ~(servers[i].server_id = cid
             /\ cpc \in {"transport", "session", "initialize", "list_tools"})

\* C8: every tool name of the aggregated catalog has a route entry (the
\* route table is a function of the name: one entry).
CatalogNamesRouted ==
    \A n \in Range(get_all_tools(servers)) :
        /\ n \in DOMAIN tool_to_server_map
        /\ tool_to_server_map[n] \in ServerIds

\* C8 witness: a catalog of two tools while the connect of the other
\* endpoint, which advertised a tool as well, has failed.
CatalogAfterFailedConnect ==
    /\ lastConnect.result = "failed"
    /\ Len(lastConnect.advertised) = 2
    /\ Len(get_all_tools(servers)) = 2

\* C9 (as claimed): after endpoint E, connected already, has connected again
\* under the same identifier, the names routed to E are exactly the names of
\* its latest tool list.
RoutesRebuiltOnReconnect ==
    (lastConnect.result = "ok" /\ HasServer(pre.servers, lastConnect.id))
    => {n \in DOMAIN tool_to_server_map : tool_to_server_map[n] = lastConnect.id}
       = Range(GetServer(servers, lastConnect.id).tool_names)

\* Endpoint `e` is connected, `o` is another connected endpoint, and both
\* advertise tool name `n`.
BothAdvertise(e, o, n) ==
    /\ e # o
    /\ HasServer(servers, e) /\ n \in Range(GetServer(servers, e).tool_names)
    /\ HasServer(servers, o) /\ n \in Range(GetServer(servers, o).tool_names)

\* C10: when the connect that completed last succeeded for endpoint E and
\* another connected endpoint advertises the same tool name as E, the name is
\* routed to E, and a call_tool of that name awaits E and no other endpoint.
LastConnectWins ==
    \A n \in ToolNames, o \in ServerIds :
        (lastConnect.result = "ok" /\ BothAdvertise(lastConnect.id, o, n))
        => /\ n \in DOMAIN tool_to_server_map
           /\ tool_to_server_map[n] = lastConnect.id
           /\ lastCall.name = n => lastCall.contacted = <<lastConnect.id>>

\* C10 witness: both endpoints advertise "search", s2 connected last, and
\* "search" was called and answered.
SharedToolCalled ==
    /\ lastConnect.result = "ok"
    /\ lastConnect.id = "s2"
    /\ BothAdvertise("s2", "s1", "search")
    /\ lastCall.name = "search"
    /\ lastCall.status = "success"

\* ------------------------------------------------------------------ claims
\* (process_query, under QSpec)

\* The positions of the assistant messages in the transcript.
AssistantAt == {i \in 1..Len(messages) : messages[i].role = "assistant"}

\* The messages that follow the assistant message at position a, up to the
\* next assistant message or the end of the transcript.
ResultsAfter(a) ==
    LET later == {i \in AssistantAt : i > a}
        last == IF later = {} THEN Len(messages)
                ELSE (CHOOSE i \in later : \A j \in later : i <= j) - 1
    IN SubSeq(messages, a + 1, last)

\* The ordinal (1 or 2) of the assistant message at position a.
RoundOf(a) == Cardinality({i \in AssistantAt : i <= a})

\* C1: in each dispatch round the tool-result messages follow the assistant
\* message in the order of its tool-call requests, the i-th one carrying the
\* id the model gave the i-th request of that response, and once the round is
\* over (the next completion call is made) there is one for every request.
ResultsInRequestOrder ==
    \A a \in AssistantAt :
        LET k == RoundOf(a)
            requested == responses[k].tool_calls
            results == ResultsAfter(a)
        IN /\ k <= Len(responses)
           /\ Len(results) <= Len(requested)
           /\ \A i \in 1..Len(results) :
                /\ results[i].role = "tool"
                /\ results[i].tool_call_id = requested[i].id
           /\ Len(sent) > k => Len(results) = Len(requested)

\* C1 witness: a finished query of two rounds of two requests each, in which
\* requests succeeded and requests failed in both orders.
TwoFullRoundsDone ==
    /\ qpc = "done"
    /\ Len(outcomes) = 4
    /\ outcomes[1].kind = "success" /\ outcomes[2].kind # "success"
    /\ outcomes[3].kind # "success" /\ outcomes[4].kind = "success"

\* The model asked for tool calls in both of the responses that may carry any.
ToolsEveryRound ==
    /\ Len(responses) >= 2
    /\ responses[1].tool_calls # << >>
    /\ responses[2].tool_calls # << >>

QueryRunning == qpc \in {"model1", "dispatch1", "model2", "dispatch2", "model3"}

\* The tool calls the model has asked for in this query.
RECURSIVE Requested(_)
Requested(k) == IF k = 0 THEN 0 ELSE Len(responses[k].tool_calls) + Requested(k - 1)

\* What a query has done so far: completion calls made, tool calls processed.
QuerySteps == Len(sent) + Len(outcomes)

\* A query never makes more than 2 dispatch rounds or 3 completion calls, nor
\* processes more tool calls than the model asked for; when the model asked
\* for tools in every round, the value returned is the content of the third
\* response, asked for with tool_choice "none".
RoundCapHolds ==
    /\ rounds <= 2
    /\ Len(sent) <= 3
    /\ Len(outcomes) <= Requested(Len(responses))
    /\ (ToolsEveryRound /\ qpc = "done")
       => /\ rounds = 2
          /\ Len(sent) = 3
          /\ sent[3].tool_choice = "none"
          /\ Len(responses) = 3
          /\ answer = responses[3].content

\* C2: whatever the model asks for, a query ends within 2 dispatch rounds and
\* 3 completion calls: it stays within that cap, a running query can always
\* take its next step (the awaited call returning or failing), every step
\* of it is one more completion call or one more processed tool call, and a
\* query whose model asked for tools in every round returns the content of
\* the completion made with tool_choice "none".
RoundCapTerminates ==
    /\ []RoundCapHolds
    /\ [](QueryRunning => ENABLED NextQ)
    /\ [][QueryRunning => QuerySteps' = QuerySteps + 1]_vars

\* C2 witness: a query returned after two rounds of tool calls.
ForcedAnswerReturned ==
    /\ ToolsEveryRound
    /\ qpc = "done"
    /\ Len(responses[1].tool_calls) = MaxCalls
    /\ Len(responses[2].tool_calls) = MaxCalls
    /\ answer = "reply 3"

\* The k-th response of this query carried tool-call requests.
AskedTools(k) == responses[k].tool_calls # << >>

\* C3: the completion calls of a query come in this order.  The first two ask
\* with tool_choice "auto", a third one with "none", and there is no fourth.
\* A response without tool calls ends the query at once: no dispatch round
\* and no completion call follows it.  A response with tool calls (first or
\* second) is followed by a dispatch round of all its requests and then by
\* one more completion call; the query returns only after a response without
\* tool calls or after the third response.
CompletionCallOrder ==
    /\ Len(sent) <= 3
    /\ \A k \in 1..Len(sent) : sent[k].tool_choice = IF k <= 2 THEN "auto" ELSE "none"
    /\ qpc = "model1" => Len(sent) = 0 /\ rounds = 0
    /\ qpc = "dispatch1" => Len(sent) = 1 /\ rounds = 1 /\ AskedTools(1)
    /\ qpc = "model2" => /\ Len(sent) = 1 /\ rounds = 1 /\ AskedTools(1)
                         /\ Len(outcomes) = Requested(1)
    /\ qpc = "dispatch2" => /\ Len(sent) = 2 /\ rounds = 2 /\ AskedTools(2)
                            /\ Len(outcomes) >= Requested(1)
    /\ qpc = "model3" => /\ Len(sent) = 2 /\ rounds = 2 /\ AskedTools(2)
                         /\ Len(outcomes) = Requested(2)
    /\ \A k \in 1..Len(responses) :
         IF k < 3 /\ ~AskedTools(k)
         THEN /\ k = Len(responses)
              /\ qpc = "done"
              /\ Len(sent) = k
              /\ rounds = k - 1
              /\ Len(outcomes) = Requested(k - 1)
         ELSE k < 3 => rounds >= k
    /\ qpc = "done" =>
         LET k == Len(responses) IN
         /\ k \in 1..3
         /\ Len(sent) = k
         /\ rounds = k - 1
         /\ \A j \in 1..(k - 1) : AskedTools(j)
         /\ k < 3 => ~AskedTools(k)
         /\ Len(outcomes) = Requested(k - 1)

\* C3 witnesses: queries ended after one, two and three completion calls are
\* all reached; this one ended after the second, a response without tool
\* calls that followed a round of MaxCalls requests.
EndedAfterFollowUp ==
    /\ qpc = "done"
    /\ Len(responses) = 2
    /\ Len(responses[1].tool_calls) = MaxCalls
    /\ Len(outcomes) = MaxCalls

\* The messages a failed dispatch can leave in the transcript.
ErrorContents ==
    {JsonDumpsError(JsonLoadsErrorText)}
    \cup {JsonDumpsError("Unknown tool: " \o n) : n \in ReqNames}
    \cup {JsonDumpsError("Server " \o e \o " is not connected") : e \in ServerIds}
    \cup {JsonDumpsError("Error calling tool " \o n \o " on server " \o e \o ": " \o t)
          : n \in ReqNames, e \in ServerIds, t \in {RemoteErrorText, IndexErrorText}}

\* The place in the transcript of the message of the j-th processed tool call:
\* after the user message, the assistant messages and the earlier results.
ResultAt(j) == j + 1 + outcomes[j].round

\* C5: a tool call that fails (its arguments do not decode, its tool is
\* unknown, its endpoint is gone or the remote call raises) leaves an
\* error-status tool message with its id and does not end the round: the
\* query raises for no other reason than a failed completion call or an
\* empty registry, and once the round is over every request of it has been
\* processed and the next completion call has been made.
FailedDispatchGoesOn ==
    /\ qpc = "failed" => error \in {"completion failed", "No servers connected"}
    /\ \A j \in 1..Len(outcomes) :
         outcomes[j].kind # "success" =>
           LET k == outcomes[j].round IN
           /\ ResultAt(j) <= Len(messages)
           /\ messages[ResultAt(j)].role = "tool"
           /\ messages[ResultAt(j)].tool_call_id = outcomes[j].id
           /\ messages[ResultAt(j)].content \in ErrorContents
           /\ (qpc \in {"done", "failed"} \/ rounds > k)
              => /\ Len(outcomes) >= Requested(k)
                 /\ Len(sent) >= k + 1

\* C5 witness: a finished query whose first round had a raising remote call
\* before a successful one, and whose second round had undecodable arguments
\* before an unknown tool.
FailuresInBothRounds ==
    /\ qpc = "done"
    /\ Len(outcomes) = 4
    /\ outcomes[1].kind = "error" /\ outcomes[1].contacted # << >>
    /\ outcomes[2].kind = "success"
    /\ outcomes[3].kind = "decode"
    /\ outcomes[4].kind = "error" /\ outcomes[4].name = "nosuch"
    /\ Len(sent) = 3

\* ------------------------------------------------------------------ claims
\* (registry, under Spec, continued)

\* C11 (as claimed): no two descriptors of the aggregated catalog have the
\* same name.
CatalogNamesUnique ==
    LET catalog == get_all_tools(servers) IN
    \A i, j \in 1..Len(catalog) : catalog[i] = catalog[j] => i = j

\* The last call_tool asked for a tool whose route names an endpoint that
\* self.servers does not hold (any more).
DeadEndpointCalled ==
    /\ lastCall # NoCall
    /\ lastCall.name \in DOMAIN tool_to_server_map
    /\ ~HasServer(servers, tool_to_server_map[lastCall.name])

\* C13 (as claimed): a call_tool of a routed tool whose endpoint is gone
\* returns the error outcome of an unknown tool, "Unknown tool: <name>".
DeadEndpointIsUnknownTool ==
    DeadEndpointCalled
    => /\ ~lastCall.raised
       /\ lastCall.status = "error"
       /\ lastCall.text = "Unknown tool: " \o lastCall.name

\* C13 (amended): a call_tool of a routed tool whose endpoint is gone does
\* not raise, awaits no endpoint and returns an error outcome whose message
\* is "Server <id> is not connected", <id> being the routed endpoint.
DeadEndpointIsErrorOutcome ==
    DeadEndpointCalled
    => /\ ~lastCall.raised
       /\ lastCall.status = "error"
       /\ lastCall.text = "Server " \o tool_to_server_map[lastCall.name]
                          \o " is not connected"
       /\ lastCall.contacted = << >>

\* C13 witness: such a call was made while another endpoint was connected.
DeadEndpointCalledBesideLive ==
    /\ DeadEndpointCalled
    /\ servers # << >>

\* The messages call_tool gives for a remote call that failed.
RemoteFailureTexts(tool_name, server_id) ==
    {"Error calling tool " \o tool_name \o " on server " \o server_id \o ": " \o t
     : t \in {RemoteErrorText, IndexErrorText}}

\* C14: call_tool never raises.  It returns a success outcome with the text
\* of the reply of the one endpoint it awaited, the routed one, or an error
\* outcome with a message; an outcome after an endpoint was awaited that is
\* not a success is an error carrying the failure of the remote call or of
\* the reading of its reply.
CallToolNeverRaises ==
    lastCall # NoCall
    => /\ ~lastCall.raised
       /\ lastCall.status \in {"success", "error"}
       /\ lastCall.status = "success"
          => /\ lastCall.text = ReplyText
             /\ lastCall.contacted = <<tool_to_server_map[lastCall.name]>>
       /\ (lastCall.status = "error" /\ lastCall.contacted # << >>)
          => /\ lastCall.contacted = <<tool_to_server_map[lastCall.name]>>
             /\ lastCall.text \in RemoteFailureTexts(lastCall.name, lastCall.contacted[1])
       /\ (lastCall.status = "error" /\ lastCall.contacted = << >>)
          => lastCall.text \in
               {"Unknown tool: " \o lastCall.name}
               \cup {"Server " \o e \o " is not connected" : e \in ServerIds}

\* C14 witness: the endpoint answered with an empty content list and
\* call_tool returned the IndexError as an error outcome.
ExtractionFailureReturned ==
    /\ lastCall # NoCall
    /\ lastCall.status = "error"
    /\ lastCall.contacted # << >>
    /\ lastCall.text = "Error calling tool " \o lastCall.name \o " on server "
                       \o lastCall.contacted[1] \o ": " \o IndexErrorText

\* ------------------------------------------------------------------ claims
\* (queries, under QSpec, continued)

\* C12 (as claimed): with no endpoint in the registry a query asks the model,
\* and when the model answered without tool calls process_query returned
\* the content of that answer.
ZeroEndpointsDirectAnswer ==
    (servers = << >> /\ qpc \in {"done", "failed"})
    => /\ Len(sent) >= 1
       /\ (Len(responses) = 1 /\ responses[1].tool_calls = << >>)
          => /\ qpc = "done"
             /\ answer = responses[1].content

\* C12 (amended): with no endpoint in the registry process_query raises
\* ValueError("No servers connected") before any completion call and returns
\* nothing; with an endpoint in the registry, a query whose first response
\* carries no tool calls makes that one completion call and returns the
\* content of the response unchanged.
DirectAnswerNeedsEndpoint ==
    /\ (servers = << >> /\ qpc # "idle")
       => /\ qpc = "failed"
          /\ error = "No servers connected"
          /\ answer = "-"
          /\ sent = << >>
          /\ responses = << >>
    /\ (servers # << >> /\ Len(responses) = 1 /\ responses[1].tool_calls = << >>)
       => /\ qpc = "done"
          /\ answer = responses[1].content
          /\ Len(sent) = 1
          /\ outcomes = << >>

\* C12 witness: a query was made with no endpoint in the registry.
QueriedWithoutEndpoint ==
    /\ servers = << >>
    /\ qpc = "failed"
    /\ error = "No servers connected"

\* The request of the model the j-th processed tool call answers.
RequestOf(j) ==
    LET asked == responses[outcomes[j].round].tool_calls IN
    asked[CHOOSE i \in 1..Len(asked) : asked[i].id = outcomes[j].id]

\* C15: a request whose arguments do not decode is answered at once by an
\* error tool message with the id of the request; call_tool is not awaited
\* for it and no endpoint is contacted.
DecodeFailureContactsNothing ==
    \A j \in 1..Len(outcomes) :
      RequestOf(j).arguments = BadArgs
      => /\ outcomes[j].called = << >>
         /\ outcomes[j].contacted = << >>
         /\ messages[ResultAt(j)] =
              [role |-> "tool", tool_calls |-> << >>,
               tool_call_id |-> RequestOf(j).id,
               content |-> JsonDumpsError(JsonLoadsErrorText)]

\* C15 witness: in each of the two rounds a request with undecodable
\* arguments for a tool with a live endpoint was processed, the first of them
\* before a request that was dispatched.
DecodeFailuresInBothRounds ==
    /\ Len(outcomes) >= 3
    /\ RequestOf(1).arguments = BadArgs
    /\ outcomes[1].name \in DOMAIN tool_to_server_map
    /\ HasServer(servers, tool_to_server_map[outcomes[1].name])
    /\ outcomes[2].contacted # << >>
    /\ outcomes[3].round = 2
    /\ RequestOf(3).arguments = BadArgs

\* C16: a completion call that fails ends the query.  process_query raises
\* the failure and returns nothing, and that call stays the last thing the
\* query did: no completion call and no dispatch comes after it.
ModelFailureIsFatal ==
    Len(sent) > Len(responses)
    => /\ qpc = "failed"
       /\ error = "completion failed"
       /\ answer = "-"
       /\ Len(sent) = Len(responses) + 1
       /\ Len(outcomes) = Requested(Len(responses))

\* C16 witness: the third completion call of a query failed, after two
\* rounds of dispatch.
ThirdModelCallFailed ==
    /\ qpc = "failed"
    /\ Len(sent) = 3
    /\ Len(responses) = 2
    /\ Len(outcomes) >= 2

\* C19: no step of call_tool and no step of process_query changes
\* self.servers or self.tool_to_server_map, whatever the outcome of the
\* dispatch.
DispatchOnlyReads ==
    [][(CallTool \/ NextQ)
       => /\ servers' = servers
          /\ tool_to_server_map' = tool_to_server_map]_vars

\* C19 witness: a query has dispatched a tool call that succeeded, one for a
\* tool whose endpoint is gone and one for an unknown tool.
DispatchedLiveDeadAndUnknown ==
    /\ \E j \in 1..Len(outcomes) : outcomes[j].kind = "success"
    /\ \E j \in 1..Len(outcomes) :
         /\ outcomes[j].called # << >>
         /\ outcomes[j].name \in DOMAIN tool_to_server_map
         /\ ~HasServer(servers, tool_to_server_map[outcomes[j].name])
    /\ \E j \in 1..Len(outcomes) :
         /\ outcomes[j].called # << >>
         /\ outcomes[j].name \notin DOMAIN tool_to_server_map

\* ------------------------------------------------------------------ claims
\* (main, under MainSpec)

\* C17 (as claimed): once cleanup has returned every connection is released
\* and self.servers, the catalog and the route table are empty.
CleanupClearsRegistry ==
    cleanups > 0
    => /\ exit_stack = {}
       /\ servers = << >>
       /\ get_all_tools(servers) = << >>
       /\ tool_to_server_map = << >>

\* C18 (as claimed): a run of main that has called connect_to_server and has
\* ended has called cleanup exactly once, and no run calls it twice.
CleanupOnceAtTeardown ==
    /\ cleanups <= 1
    /\ (mpc = "exited" /\ issued # << >>) => cleanups = 1

\* The connects of main that wrote a route for the tool n, by their place in
\* the order of issue.
Wrote(n) == {k \in 1..Len(returned) : n \in Range(returned[k].wrote)}

\* C20: main's connect_to_server calls never overlap: the only call that can
\* be in progress is the one issued last, and it has returned before the
\* next one is issued.  So once the calls issued have returned, a tool name
\* is routed exactly when some call registered it, and to the endpoint of
\* the call issued last among those that did.
ConnectsSerialized ==
    /\ Cardinality(inprogress) <= 1
    /\ inprogress # {} => inprogress = {issued[Len(issued)]}
    /\ Len(returned) \in {Len(issued), Len(issued) - 1}
    /\ \A k \in 1..Len(returned) :
         /\ returned[k].id = issued[k]
         /\ returned[k].result \in {"ok", "failed"}
    /\ Len(returned) = Len(issued)
       => /\ inprogress = {}
          /\ DOMAIN tool_to_server_map = {n \in ToolNames : Wrote(n) # {}}
          /\ \A n \in DOMAIN tool_to_server_map :
               \E k \in Wrote(n) :
                 /\ \A j \in Wrote(n) : j <= k
                 /\ tool_to_server_map[n] = issued[k]

\* C20 witness: main connected s2 and then s1, both registered "add", and the
\* chat loop runs with "add" routed to s1.
BothRegisteredInOrder ==
    /\ mpc = "chat"
    /\ issued = <<"s2", "s1">>
    /\ Wrote("add") = {1, 2}
    /\ tool_to_server_map["add"] = "s1"

\* ------------------------------------------------------------------ claims
\* (registry, under Spec and CatalogSpec, continued)

\* C26 (as claimed): between connects every route of tool_to_server_map
\* names an endpoint that self.servers holds with a session, and no call_tool
\* of a routed name answers "Server <id> is not connected".
RoutesPointToLiveEndpoints ==
    cpc = "idle"
    => /\ \A n \in DOMAIN tool_to_server_map :
            /\ HasServer(servers, tool_to_server_map[n])
            /\ GetServer(servers, tool_to_server_map[n]).session # "None"
       /\ (lastCall # NoCall /\ lastCall.name \in DOMAIN tool_to_server_map)
          => lastCall.text # "Server " \o tool_to_server_map[lastCall.name]
                              \o " is not connected"

LatestContentReturned ==
    qpc = "done"
    => LET k == Len(responses) IN
       /\ k \in 1..3
       /\ Len(sent) = k
       /\ answer = responses[k].content
       /\ \A j \in 1..(k - 1) : responses[j].tool_calls # << >>
       /\ k < 3 => responses[k].tool_calls = << >>

\* C22 witness: the second response carried no tool calls and its content,
\* not that of the first, was returned.
SecondContentReturned ==
    /\ qpc = "done"
    /\ Len(responses) = 2
    /\ responses[1].content = "reply 1"
    /\ answer = "reply 2"

\* C23: the text call_tool returned for a successful tool call is, as it
\* is, the content of the tool message of that request; a failed one has a
\* JSON object with status "error" as content; and the message is, at its
\* place, in the message list of the next completion call, whose content is
\* the answer when it asks for no more tools.
SuccessPayloadReachesModel ==
    \A j \in 1..Len(outcomes) :
      LET k == outcomes[j].round
          m == messages[ResultAt(j)]
      IN /\ m.role = "tool"
         /\ m.tool_call_id = outcomes[j].id
         /\ IF outcomes[j].kind = "success"
            THEN /\ m.content = ReplyText
                 /\ outcomes[j].contacted = <<tool_to_server_map[outcomes[j].name]>>
            ELSE m.content \in ErrorContents
         /\ Len(sent) > k
            => /\ ResultAt(j) <= Len(sent[k + 1].messages)
               /\ sent[k + 1].messages[ResultAt(j)] = m
               /\ (Len(responses) > k /\ responses[k + 1].tool_calls = << >>)
                  => /\ qpc = "done"
                     /\ answer = responses[k + 1].content

\* C23 witness: the registry has the one endpoint s1 with the tool add, the
\* model asked for add alone, the call succeeded and the answer is the text
\* of the next response.
AddAnsweredThroughEndpoint ==
    /\ Len(servers) = 1
    /\ qpc = "done"
    /\ Len(responses) = 2
    /\ Len(outcomes) = 1
    /\ outcomes[1].name = "add"
    /\ outcomes[1].kind = "success"
    /\ sent[2].messages[3].content = ReplyText
    /\ answer = "reply 2"

\* The tool messages of the message list msgs that carry the id.
ResultsFor(msgs, id) == {i \in 1..Len(msgs) : msgs[i].role = "tool" /\ msgs[i].tool_call_id = id}

\* C27: in every message list sent to the model each tool message comes
\* after an assistant message that holds a request with its id, and each
\* request of each assistant message has exactly one tool message, whether
\* its dispatch succeeded or failed.
ResultsPairedWithRequests ==
    \A k \in 1..Len(sent) :
      LET msgs == sent[k].messages IN
      /\ \A i \in 1..Len(msgs) :
           msgs[i].role = "tool"
           => \E a \in 1..(i - 1) :
                /\ msgs[a].role = "assistant"
                /\ \E c \in 1..Len(msgs[a].tool_calls) :
                     msgs[a].tool_calls[c].id = msgs[i].tool_call_id
      /\ \A a \in 1..Len(msgs) :
           msgs[a].role = "assistant"
           => \A c \in 1..Len(msgs[a].tool_calls) :
                /\ Cardinality(ResultsFor(msgs, msgs[a].tool_calls[c].id)) = 1
                /\ \A i \in ResultsFor(msgs, msgs[a].tool_calls[c].id) : i > a

\* C27 witness: the third completion call was sent a message list with two
\* assistant messages of MaxCalls requests each, with failed and successful
\* dispatches among them.
FullTranscriptSent ==
    /\ Len(sent) = 3
    /\ Len(sent[3].messages) = 3 + 2 * MaxCalls
    /\ \E j \in 1..Len(outcomes) : outcomes[j].kind = "success"
    /\ \E j \in 1..Len(outcomes) : outcomes[j].kind = "decode"

\* ------------------------------------------------------------------ claims
\* (main, under MainSpec, continued)

\* main is past its connect loop.
LoopOver == mpc \notin {"connect", "await"}

\* C28: a connect_to_server that fails does not end main.  Every configured
\* endpoint is attempted, the chat loop is entered exactly when one of the
\* calls returned True, and then the registry is never empty: no query of
\* the chat loop is answered "No servers connected".
FailedConnectNonFatal ==
    /\ LoopOver
       => /\ Range(issued) = ServerIds
          /\ Len(returned) = Len(issued)
          /\ (\E k \in 1..Len(returned) : returned[k].result = "ok")
             <=> ~(mpc = "exited" /\ cleanups = 0)
    /\ mpc \in {"chat", "query"} => servers # << >>
    /\ shown # "Error: No servers connected"

\* C28 witness: the first connect failed, the second succeeded and the chat
\* loop has passed a query to process_query.
QueryAfterFailedConnect ==
    /\ mpc = "query"
    /\ returned[1].result = "failed"
    /\ returned[2].result = "ok"

\* C29 (as claimed): chat_loop is left only by 'quit'; no query is cut
\* short; no 'quit' and no 'servers' is passed to process_query.
ChatEndsOnlyOnQuit ==
    /\ ended \in {"-", "quit"}
    /\ \A q \in queries : Lower(q) \notin {QuitCommand, ServersCommand}

\* C29 (amended): chat_loop is left by 'quit' (stripped, in any case) or by
\* an exception its `except Exception` clause does not catch or guard
\* against: at the prompt, or a cancellation while process_query is awaited.
\* Short of that a query ends by itself, answered or failed and reported,
\* and the loop reads the next input with the registry as it was.  No
\* 'quit' and no 'servers' is passed to process_query, and 'servers' passes
\* nothing to it.
ChatLoopEnds ==
    /\ [](/\ ended \in {"-", "quit", "raised at the prompt", "raised in a query"}
          /\ ended = "raised in a query" => pending \in {"CancelledError", "aclose failed"}
          /\ ended # "-" <=> (mpc \in {"finally", "exited"} /\ connected_any)
          /\ \A q \in queries : Lower(q) \notin {QuitCommand, ServersCommand})
    /\ [][mpc = "query"
          => /\ servers' = servers
             /\ tool_to_server_map' = tool_to_server_map
             /\ queries' = queries
             /\ \/ mpc' = "chat" /\ ended' = "-"
                \/ mpc' = "finally" /\ pending' = "CancelledError"]_vars
    /\ [][ChatServers => (queries' = queries /\ mpc' = "chat")]_vars

\* C29 witness: a query failed and was reported, the loop went on and was
\* left by 'quit'.
QuitAfterFailedQuery ==
    /\ ended = "quit"
    /\ shown = "Error: "
    /\ queries # {}

\* ------------------------------------------------------------------ claims
\* (simple clients, under StdioSpec and SseSpec)

\* C24 (as claimed): in the stdio client a tool call that fails does not end
\* the query: process_query raises for no other reason than a failed
\* list_tools or completion call, and every request of the first response
\* is processed before the query is over.
StdioFailedDispatchGoesOn ==
    /\ qpc = "failed"
       => error \in {"completion failed", RemoteErrorText, JoinTypeErrorText}
    /\ (qpc \in {"done", "failed"} /\ Len(responses) >= 1
        /\ error \notin {"completion failed", JoinTypeErrorText})
       => Len(outcomes) = Len(responses[1].tool_calls)

\* The place in the transcript of the SSE client of the message of the j-th
\* tool call: after the user message and the assistant message.
SseResultAt(j) == j + 2

\* C25: a query of the SSE client makes at most two completion calls, the
\* first with tool_choice "auto"; when its response carries tool calls each
\* of them gets one tool message, in the order of the requests and with the
\* id of the request, holding the text of the endpoint or a JSON error
\* object, then the second call is made with tool_choice "none" and all
\* these messages, and its content is returned; a response without tool
\* calls is returned with no second call.  The query raises only without a
\* session or when list_tools or a completion call fails.
SseOneRound ==
    /\ Len(sent) <= 2
    /\ Len(responses) <= Len(sent)
    /\ Len(sent) >= 1 => sent[1].tool_choice = "auto"
    /\ Len(outcomes) <= (IF responses = << >> THEN 0 ELSE Len(responses[1].tool_calls))
    /\ \A j \in 1..Len(outcomes) :
         LET request == responses[1].tool_calls[j]
             m == messages[SseResultAt(j)]
         IN /\ outcomes[j].id = request.id
            /\ m.role = "tool"
            /\ m.tool_call_id = request.id
            /\ IF request.arguments = ValidArgs /\ outcomes[j].kind = "text"
               THEN m.content = ReplyText
               ELSE m.content \in {JsonDumpsError(JsonLoadsErrorText),
                                   JsonDumpsError(RemoteErrorText),
                                   JsonDumpsError(IndexErrorText)}
            /\ request.arguments = BadArgs => outcomes[j].called = << >>
    /\ Len(messages) = (IF responses = << >> THEN 0 ELSE 2 + Len(outcomes))
    /\ Len(sent) = 2
       => /\ responses[1].tool_calls # << >>
          /\ Len(outcomes) = Len(responses[1].tool_calls)
          /\ sent[2].tool_choice = "none"
          /\ sent[2].messages = messages
    /\ qpc = "done"
       => IF responses[1].tool_calls = << >>
          THEN Len(sent) = 1 /\ answer = responses[1].content
          ELSE Len(sent) = 2 /\ Len(responses) = 2 /\ answer = responses[2].content
    /\ qpc = "failed"
       => error \in {"Client is not connected to a server", RemoteErrorText,
                     "completion failed"}

\* C25 witness: a finished query of the SSE client whose one round had
\* MaxCalls requests, a failed one before a successful one.
SseRoundDone ==
    /\ session = "connected"
    /\ qpc = "done"
    /\ Len(sent) = 2
    /\ Len(outcomes) = MaxCalls
    /\ outcomes[1].kind # "text"
    /\ outcomes[MaxCalls].kind = "text"
    /\ answer = "reply 2"

\* ------------------------------------------------------------------ claims
\* (documentation browser, under BrowserSpec)

\* C30 (as claimed): at most one child script is running; a running child
\* is the one current_process refers to, or the one a request has just
\* started and is about to store there; and with no request in flight
\* current_process is None.
OneChildTracked ==
    /\ Cardinality(alive) <= 1
    /\ \A p \in alive :
         \/ current_process = p
         \/ \E t \in Threads : tpc[t] = "run_store" /\ handle[t] = p
    /\ (\A t \in Threads : tpc[t] = "idle") => current_process = NoProcess

====
